---- MODULE Spec2Model ----
(***************************************************************************)
(* Model of the illustration-personalisation backend:                      *)
(*   backend/illustration_styler.py  IllustrationStyler (extract, stylize, *)
(*                                   insert, process)                      *)
(*   backend/face_detector.py        FaceDetector (detect_face,            *)
(*                                   get_largest_face)                     *)
(*   backend/main.py                 the /detect-face and /personalize     *)
(*                                   handlers, model initialisation        *)
(*   backend/instant_id_styler.py    InstantIDStyler (style, blend,        *)
(*                                   process_instant_id_style)             *)
(*                                                                         *)
(* Images are modelled by what the code reads of them: whether they decode *)
(* and their width and height.  Bounding-box coordinates are the floats    *)
(* the detector reports; they are held as integer numerators over the      *)
(* denominator Sub, so that int(v) is a real truncation.                   *)
(***************************************************************************)
EXTENDS Integers, Sequences, FiniteSets, TLC

VARIABLES
    call,                 \* one direct call of a styler method: arguments and return
    models_ready,         \* main.py:46
    face_detector,        \* main.py:44   (FALSE = None)
    illustration_styler,  \* main.py:45   (FALSE = None)
    init_pc,              \* position of the initialize_models thread
    req,                  \* per request: the handler's locals and position
    run,                  \* per request: the executor's IllustrationStyler.process run
    uploads,              \* files in UPLOAD_DIR: name -> image
    outputs               \* files in OUTPUT_DIR: set of requests that wrote one

vars == <<call, models_ready, face_detector, illustration_styler, init_pc,
          req, run, uploads, outputs>>

svcvars == <<models_ready, face_detector, illustration_styler, init_pc,
             req, run, uploads, outputs>>

----------------------------------------------------------------------------
(* Bounds of the model and constants of the program *)

\* Sub-pixel resolution of a bounding-box coordinate: a coordinate is n / Sub.
Sub == 2

\* Number of requests the service receives
NumReq == 2

\* Largest number of faces the detector reports in one photo
MaxFaces == 2

\* illustration_styler.py:52, :143 and face_detector.py:53
max_dim == 1024

\* illustration_styler.py:85
max_size == 512

\* config.py:24, in MiB
MAX_UPLOAD_SIZE == 50

\* main.py:138, :209: compress_image(content, max_size=(800, 800))
PhotoMax == 800

\* illustration_styler.py:112, the k-means cluster count
K == 8

\* illustration_styler.py:64: pad = int((x2 - x1) * 0.1), i.e. a tenth
PadDiv == 10

----------------------------------------------------------------------------
(* Arithmetic as Python does it *)

Max(a, b) == IF a >= b THEN a ELSE b

Min(a, b) == IF a <= b THEN a ELSE b

\* int(n / d) for d > 0: truncation toward zero
TruncDiv(n, d) == IF n >= 0 THEN n \div d ELSE -((-n) \div d)

\* int(v) of a float coordinate v = n / Sub   (illustration_styler.py:60)
PyInt(n) == TruncDiv(n, Sub)

\* scale = max_dim / m is a double (:53, :144), and so is v * scale: where the
\* rounded quotient lies below max_dim / m the product of an exact multiple
\* falls just under the integer and int() drops to the integer below.  These
\* are the pairs <<v, m>> among the sizes of this model where that happens
\* (1122 * (1024 / 1122) = 1023.9999999999999, 561 * (1024 / 1122) =
\* 511.99999999999994); a long edge of 2048 gives scale = 0.5, which is exact
ScaleShort == {<<1122, 1122>>, <<561, 1122>>}

\* int(v * scale) with scale = max_dim / m, for an integer v (:55, :146, :149)
ScaleInt(v, m) ==
    TruncDiv(v * max_dim, m) - (IF <<v, m>> \in ScaleShort THEN 1 ELSE 0)

\* int(coord * scale) for a float coordinate coord = n / Sub (:58)
ScaleCoord(n, m) == TruncDiv(n * max_dim, Sub * m)

\* int(w * 0.1) (:64)
Pad(w) == TruncDiv(w, PadDiv)

\* Start or stop of a[i:j] on an axis of length n, as Python normalises it
SliceIdx(i, n) == IF i < 0 THEN Max(i + n, 0) ELSE Min(i, n)

\* len(a[i:j]) on an axis of length n
SliceLen(i, j, n) == Max(0, SliceIdx(j, n) - SliceIdx(i, n))

----------------------------------------------------------------------------
(* Images *)

\* cv2.imread of a missing or undecodable file returns None
NoImage == [ok |-> FALSE, w |-> 0, h |-> 0]

Img(w, h) == [ok |-> TRUE, w |-> w, h |-> h]

Empty(img) == img.w = 0 \/ img.h = 0

NoBox == <<0, 0, 0, 0>>

----------------------------------------------------------------------------
(* IllustrationStyler.extract_face_region *)

\* The image after "Resize if too large" (:51-56)
ExtractResize(image) ==
    LET m == Max(image.h, image.w)
    IN  IF m > max_dim
        THEN Img(ScaleInt(image.w, m), ScaleInt(image.h, m))
        ELSE image

\* x1, y1, x2, y2 = [int(v) for v in face_bbox], after the bbox was scaled
\* with the image (:53-60); a scaled coordinate is already an int
ExtractIntBox(image, face_bbox) ==
    LET m == Max(image.h, image.w)
    IN  IF m > max_dim
        THEN [i \in 1..4 |-> ScaleCoord(face_bbox[i], m)]
        ELSE [i \in 1..4 |-> PyInt(face_bbox[i])]

\* PadClamp with the padding taken from the box height instead of its width
PadClampHeight(img, b) ==
    LET pad == Pad(b[4] - b[2])
    IN  << Max(0, b[1] - pad), Max(0, b[2] - pad),
           Min(img.w, b[3] + pad), Min(img.h, b[4] + pad) >>

\* "Add padding" and clamp (:63-68)
PadClamp(img, b) ==
    LET pad == Pad(b[3] - b[1])
    IN  << Max(0, b[1] - pad), Max(0, b[2] - pad),
           Min(img.w, b[3] + pad), Min(img.h, b[4] + pad) >>

\* image[y1:y2, x1:x2] (:70): numpy slices, and never raises
Crop(img, c) == Img(SliceLen(c[1], c[3], img.w), SliceLen(c[2], c[4], img.h))

\* The whole method (:47-75).  image None makes image.shape raise (:51).
extract_face_region(image, face_bbox) ==
    IF ~image.ok
    THEN [raised |-> TRUE, face_region |-> NoImage, coords |-> NoBox]
    ELSE LET img == ExtractResize(image)
             c   == PadClamp(img, ExtractIntBox(image, face_bbox))
         IN  [raised |-> FALSE, face_region |-> Crop(img, c), coords |-> c]

----------------------------------------------------------------------------
(* IllustrationStyler.stylize_face *)

\* "Resize if too large to save memory" (:84-89): the size the filters run on
StylizeSize(face_image) ==
    LET m == Max(face_image.h, face_image.w)
    IN  IF m > max_size
        THEN Img(TruncDiv(face_image.w * max_size, m),
                 TruncDiv(face_image.h * max_size, m))
        ELSE face_image

\* The whole method (:82-128).  cv2.resize and cv2.cvtColor raise on an empty
\* image or an empty target size, cv2.kmeans raises with fewer than K samples;
\* nothing resizes the result back (:109-124).
stylize_face(face_image) ==
    LET s == StylizeSize(face_image)
    IN  IF Empty(face_image) \/ Empty(s) \/ s.w * s.h < K
        THEN [raised |-> TRUE, stylized |-> NoImage]
        ELSE [raised |-> FALSE, stylized |-> s]

----------------------------------------------------------------------------
(* IllustrationStyler.insert_face_into_illustration *)

\* InsertResize without the branch of :142-149: the illustration is never
\* downscaled
InsertResizeNever(illustration) == illustration

\* The illustration after "Resize illustration if too large" (:142-147)
InsertResize(illustration) ==
    LET m == Max(illustration.h, illustration.w)
    IN  IF m > max_dim
        THEN Img(ScaleInt(illustration.w, m), ScaleInt(illustration.h, m))
        ELSE illustration

\* face_coords after "Scale coordinates" (:149), i.e. x1, y1, x2, y2 of :151
InsertCoords(illustration, face_coords) ==
    LET m == Max(illustration.h, illustration.w)
    IN  IF m > max_dim
        THEN [i \in 1..4 |-> ScaleInt(face_coords[i], m)]
        ELSE face_coords

\* cv2.resize(stylized_face, (target_w, target_h)) raises (:156): an empty
\* source, or a target size that is not positive
ResizeRaises(stylized_face, target_w, target_h) ==
    Empty(stylized_face) \/ target_w <= 0 \/ target_h <= 0

\* cv2.ellipse raises on a negative axis (:173): target // 2 - 2 < 0
EllipseRaises(target_w, target_h) ==
    (target_w \div 2) - 2 < 0 \/ (target_h \div 2) - 2 < 0

\* The target rectangle lies inside the illustration
RectInside(ill, c) ==
    0 <= c[1] /\ c[1] <= c[3] /\ c[3] <= ill.w /\ 0 <= c[2] /\ c[2] <= c[4] /\ c[4] <= ill.h

\* cv2.seamlessClone raises (:181): OpenCV rejects a region that leaves the
\* destination, and may reject the call for reasons of its own (cloneOK)
SeamlessCloneRaises(ill, c, cloneOK) == ~cloneOK \/ ~RectInside(ill, c)

\* The fallback raises (:185-189): roi = illustration[y1:y2, x1:x2] must have
\* the shape of the resized face for the weighted sum and the assignment
FallbackRaises(ill, c) ==
    \/ SliceLen(c[1], c[3], ill.w) # c[3] - c[1]
    \/ SliceLen(c[2], c[4], ill.h) # c[4] - c[2]

InsertRaise == [raised |-> TRUE, result |-> NoImage, path |-> "none", target |-> NoBox]

\* The whole method (:135-201).  Only the colour transfer (:159-169) and the
\* seamlessClone call (:180-189) have handlers of their own; every other
\* exception reaches the outer handler, which re-raises (:199-201).
insert_face_into_illustration(illustration, stylized_face, face_coords, cloneOK) ==
    IF ~illustration.ok
    THEN InsertRaise
    ELSE LET ill == InsertResize(illustration)
             c   == InsertCoords(illustration, face_coords)
             target_w == c[3] - c[1]
             target_h == c[4] - c[2]
         IN  IF ResizeRaises(stylized_face, target_w, target_h)
             THEN InsertRaise
             ELSE IF EllipseRaises(target_w, target_h)
             THEN InsertRaise
             ELSE IF ~SeamlessCloneRaises(ill, c, cloneOK)
             THEN [raised |-> FALSE, result |-> ill, path |-> "seamless", target |-> c]
             ELSE IF FallbackRaises(ill, c)
             THEN InsertRaise
             ELSE [raised |-> FALSE, result |-> ill, path |-> "fallback", target |-> c]


----------------------------------------------------------------------------
(* The service: requests, their temporary files, their pipeline runs *)

Req == 1..NumReq

\* UPLOAD_DIR / f"{uuid4()}_child.jpg", "..._template.jpg", "{uuid4()}.jpg":
\* a fresh name per request and kind (main.py:144, :213, :228)
FileNames == Req \X {"child", "template", "detect"}

\* The handler's locals (main.py:129, :196-198) and its position; timed_out
\* and too_large record which of its checks ended it (:250, :133, :205, :220)
NewReq == [endpoint |-> "none", pc |-> "new", status |-> 0,
           child_photo_path |-> FALSE, illustration_path |-> FALSE,
           temp_file_path |-> FALSE, output_path |-> FALSE, timed_out |-> FALSE,
           too_large |-> "none"]

\* The locals of one IllustrationStyler.process run (illustration_styler.py:219-233)
NoRun == [stage |-> "none", cause |-> "none", raised_in |-> "none", face_data |-> "unset",
          bbox |-> NoBox, face_region |-> NoImage, coords |-> NoBox,
          stylized |-> NoImage, result |-> NoImage]

\* A file exists exactly when it holds an image: every file the handlers write
\* is a JPEG that compress_image produced (main.py:49-66)
Exists(f) == uploads[f].ok

\* cv2.imread(path): None when the file is gone
imread(f) == uploads[f]

\* path.unlink() for each of the given files that exists
Unlink(up, fs) == [f \in FileNames |-> IF f \in fs THEN NoImage ELSE up[f]]


----------------------------------------------------------------------------
(* FaceDetector *)

\* (x2 - x1) * (y2 - y1), the key of max() (face_detector.py:104-105)
Area(b) == (b[3] - b[1]) * (b[4] - b[2])

\* Largest taking the first face reported, whatever its area
LargestFirst(faces) == faces[1]

\* max(results["faces"], key=...): the first face of the greatest area (:102-106)
Largest(faces) ==
    LET i == CHOOSE i \in 1..Len(faces) :
                 /\ \A j \in 1..Len(faces) : Area(faces[j]) <= Area(faces[i])
                 /\ \A j \in 1..(i - 1) : Area(faces[j]) < Area(faces[i])
    IN  faces[i]

\* FaceDetector.detect_face (:46-84); faces is what self.app.get(image) reports
detect_face(image, faces) ==
    IF ~image.ok
    THEN [raised |-> TRUE, detected |-> FALSE, faces |-> << >>]
    ELSE [raised |-> FALSE, detected |-> faces # << >>, faces |-> faces]

\* FaceDetector.get_largest_face (:96-108)
get_largest_face(image, faces) ==
    LET results == detect_face(image, faces)
    IN  IF results.raised
        THEN [raised |-> TRUE, face_data |-> "unset", bbox |-> NoBox]
        ELSE IF ~results.detected
        THEN [raised |-> FALSE, face_data |-> "None", bbox |-> NoBox]
        ELSE [raised |-> FALSE, face_data |-> "face", bbox |-> Largest(results.faces)]

----------------------------------------------------------------------------
(* IllustrationStyler.process, one action per stage, run by an executor thread *)

\* The order of the calls in process (illustration_styler.py:219-241)
StageAfter(stage) ==
    CASE stage = "Idle"        -> "Detecting"
      [] stage = "Detecting"   -> "Extracting"
      [] stage = "Extracting"  -> "Stylizing"
      [] stage = "Stylizing"   -> "Compositing"
      [] stage = "Compositing" -> "Done"
      [] OTHER                 -> stage

\* Advance with a retry: a failed stylization goes back to the extraction
AdvanceRetry(stage, raised) ==
    IF raised
    THEN (IF stage = "Stylizing" THEN "Extracting" ELSE "Failed")
    ELSE StageAfter(stage)

\* Advance with the exception swallowed: the next call runs all the same
AdvanceSwallow(stage, raised) == StageAfter(stage)

\* An exception in a stage leaves process through its handler, which re-raises
\* (:243-245); otherwise the next call runs
Advance(stage, raised) == IF raised THEN "Failed" ELSE StageAfter(stage)

\* ProcessDetect without the "if not face_data: raise" check
ProcessDetectNoCheck(image, loaded, faces) ==
    LET g == get_largest_face(image, faces)
    IN  IF ~loaded
        THEN [raised |-> TRUE, cause |-> "DetectorInit", face_data |-> "unset", bbox |-> NoBox]
        ELSE IF g.raised
        THEN [raised |-> TRUE, cause |-> "DecodeError", face_data |-> "unset", bbox |-> NoBox]
        ELSE [raised |-> FALSE, cause |-> "none", face_data |-> g.face_data, bbox |-> g.bbox]

\* "Detect face" (:219-224): FaceDetector() may fail to load its model
\* (face_detector.py:32-34), detect_face may fail to read the photo, and no
\* face makes process raise ValueError("No face detected ...")
ProcessDetect(image, loaded, faces) ==
    LET g == get_largest_face(image, faces)
    IN  IF ~loaded
        THEN [raised |-> TRUE, cause |-> "DetectorInit", face_data |-> "unset", bbox |-> NoBox]
        ELSE IF g.raised
        THEN [raised |-> TRUE, cause |-> "DecodeError", face_data |-> "unset", bbox |-> NoBox]
        ELSE IF g.face_data = "None"
        THEN [raised |-> TRUE, cause |-> "NoFaceDetected", face_data |-> "None", bbox |-> NoBox]
        ELSE [raised |-> FALSE, cause |-> "none", face_data |-> "face", bbox |-> g.bbox]

\* Photo sizes a client uploads, and what the detector may report in a photo
ServiceBoxes == { <<100 * Sub, 100 * Sub, 200 * Sub, 200 * Sub>>,
                  <<10 * Sub, 10 * Sub, 10 * Sub + 1, 20 * Sub>>,
                  <<50 * Sub, 50 * Sub, 700 * Sub, 550 * Sub>> }

FaceLists == UNION {[1..n -> ServiceBoxes] : n \in 0..MaxFaces}

\* process has returned or raised: its frame is gone, and with it detector,
\* face_data, face_region, stylized and coords (:238-245).  What the caller
\* gets is the result or the exception; cause, raised_in and face_data stay
\* as the record of what happened.
Leave(rn) ==
    IF rn.stage \in {"Done", "Failed"}
    THEN [rn EXCEPT !.bbox = NoBox, !.face_region = NoImage, !.coords = NoBox,
                    !.stylized = NoImage]
    ELSE rn

\* The executor thread picks the submitted call up (main.py:238-243)
Process_Start(r) ==
    /\ run[r].stage = "Idle"
    /\ run' = [run EXCEPT ![r].stage = Advance("Idle", FALSE)]
    /\ UNCHANGED <<call, models_ready, face_detector, illustration_styler, init_pc,
                   req, uploads, outputs>>

Process_Detect(r) ==
    /\ run[r].stage = "Detecting"
    /\ \E loaded \in BOOLEAN, faces \in FaceLists :
         LET d == ProcessDetect(imread(<<r, "child">>), loaded, faces)
         IN  run' = [run EXCEPT ![r] = Leave(
                       [@ EXCEPT !.stage = Advance("Detecting", d.raised),
                                 !.cause = d.cause,
                                 !.raised_in = IF d.raised THEN "Detecting" ELSE "none",
                                 !.face_data = d.face_data,
                                 !.bbox = d.bbox])]
    /\ UNCHANGED <<call, models_ready, face_detector, illustration_styler, init_pc,
                   req, uploads, outputs>>

\* "Extract face region" (:226-227)
Process_Extract(r) ==
    /\ run[r].stage = "Extracting"
    /\ LET e == extract_face_region(imread(<<r, "child">>), run[r].bbox)
       IN  run' = [run EXCEPT ![r] = Leave(
                     [@ EXCEPT !.stage = Advance("Extracting", e.raised),
                               !.cause = IF e.raised THEN "DecodeError" ELSE "none",
                               !.raised_in = IF e.raised THEN "Extracting" ELSE "none",
                               !.face_region = e.face_region,
                               !.coords = e.coords])]
    /\ UNCHANGED <<call, models_ready, face_detector, illustration_styler, init_pc,
                   req, uploads, outputs>>

\* Process_Stylize with the stylized face kept in a field of the shared
\* IllustrationStyler instance: every run that is compositing sees the last
\* face stylized, whichever run stylized it
Process_StylizeShared(r) ==
    /\ run[r].stage = "Stylizing"
    /\ LET t == stylize_face(run[r].face_region)
       IN  run' = [q \in Req |->
                     IF q = r
                     THEN Leave([run[r] EXCEPT
                                  !.stage = Advance("Stylizing", t.raised),
                                  !.cause = IF t.raised THEN "StylizeError" ELSE "none",
                                  !.raised_in = IF t.raised THEN "Stylizing" ELSE "none",
                                  !.stylized = t.stylized])
                     ELSE IF run[q].stage = "Compositing" /\ ~t.raised
                     THEN [run[q] EXCEPT !.stylized = t.stylized]
                     ELSE run[q]]
    /\ UNCHANGED <<call, models_ready, face_detector, illustration_styler, init_pc,
                   req, uploads, outputs>>

\* "Stylize face" (:229-230)
Process_Stylize(r) ==
    /\ run[r].stage = "Stylizing"
    /\ LET t == stylize_face(run[r].face_region)
       IN  run' = [run EXCEPT ![r] = Leave(
                     [@ EXCEPT !.stage = Advance("Stylizing", t.raised),
                               !.cause = IF t.raised THEN "StylizeError" ELSE "none",
                               !.raised_in = IF t.raised THEN "Stylizing" ELSE "none",
                               !.stylized = t.stylized])]
    /\ UNCHANGED <<call, models_ready, face_detector, illustration_styler, init_pc,
                   req, uploads, outputs>>

\* "Insert into illustration" (:232-241)
Process_Composite(r) ==
    /\ run[r].stage = "Compositing"
    /\ \E cloneOK \in BOOLEAN :
         LET ill == imread(<<r, "template">>)
             i   == insert_face_into_illustration(ill, run[r].stylized, run[r].coords, cloneOK)
         IN  run' = [run EXCEPT ![r] = Leave(
                       [@ EXCEPT !.stage = Advance("Compositing", i.raised),
                                 !.cause = IF ~i.raised THEN "none"
                                           ELSE IF ~ill.ok THEN "DecodeError"
                                           ELSE "InsertError",
                                 !.raised_in = IF i.raised THEN "Compositing" ELSE "none",
                                 !.result = i.result])]
    /\ UNCHANGED <<call, models_ready, face_detector, illustration_styler, init_pc,
                   req, uploads, outputs>>

----------------------------------------------------------------------------
(* InstantIDStyler (instant_id_styler.py) *)

\* int((x2 - x1) * 0.15) (instant_id_styler.py:231)
InstantPad(w) == TruncDiv(w * 15, 100)

\* apply_illustration_style (:76-114).  cv2.cvtColor raises on an empty image
\* and cv2.kmeans with fewer than 8 samples (:96); the handler logs and
\* returns the face it was given (:112-114).  path names the value returned.
apply_illustration_style(face_image) ==
    IF Empty(face_image) \/ face_image.w * face_image.h < K
    THEN [raised |-> FALSE, image |-> face_image, path |-> "face_image"]
    ELSE [raised |-> FALSE, image |-> face_image, path |-> "stylized"]

\* x1, y1, x2, y2 after int() and the clamp to the template (:151-156)
BlendCoords(template_image, face_coords) ==
    << Max(0, PyInt(face_coords[1])), Max(0, PyInt(face_coords[2])),
       Min(template_image.w, PyInt(face_coords[3])),
       Min(template_image.h, PyInt(face_coords[4])) >>

\* blend_with_illustration_template (:150-195).  template_image None makes
\* .shape raise (:152); a target that is not positive returns the template
\* (:160-162); cv2.resize raises on an empty face (:165); blendOK is whether
\* the OpenCV arithmetic of :178-182 accepts its operands.  Every exception is
\* logged and the template returned (:193-195).
blend_with_illustration_template(template_image, stylized_face, face_coords, blendOK) ==
    LET unmodified == [raised |-> FALSE, image |-> template_image, path |-> "template_image"]
    IN  IF ~template_image.ok
        THEN unmodified
        ELSE LET c == BlendCoords(template_image, face_coords)
             IN  IF c[4] - c[2] <= 0 \/ c[3] - c[1] <= 0
                 THEN unmodified
                 ELSE IF Empty(stylized_face) \/ ~blendOK
                 THEN unmodified
                 ELSE [raised |-> FALSE, image |-> template_image, path |-> "result"]

\* process_instant_id_style without face_data (:213-254): detection as in
\* IllustrationStyler.process, a crop padded by 15 %, the style, the blend at
\* the detected box; only detection and the crop can raise.
process_instant_id_style(image, template, faces, blendOK) ==
    LET d == ProcessDetect(image, TRUE, faces)
    IN  IF d.raised
        THEN [raised |-> TRUE, image |-> NoImage, path |-> "none"]
        ELSE LET b   == [i \in 1..4 |-> PyInt(d.bbox[i])]
                 pad == InstantPad(b[3] - b[1])
                 c   == << Max(0, b[1] - pad), Max(0, b[2] - pad),
                           Min(image.w, b[3] + pad), Min(image.h, b[4] + pad) >>
                 stylized_face == apply_illustration_style(Crop(image, c)).image
             IN  blend_with_illustration_template(template, stylized_face, d.bbox, blendOK)

----------------------------------------------------------------------------
(* Direct calls of the three styler methods, one call per behaviour *)

NoRet == [raised |-> FALSE, image |-> NoImage, box |-> NoBox, path |-> "none"]

NoCall == [fn |-> "none", state |-> "returned", image |-> NoImage, box |-> NoBox,
           face |-> NoImage, cloneOK |-> FALSE, template |-> NoImage,
           faces |-> << >>, blendOK |-> FALSE, ret |-> NoRet]

\* Image sizes of the extractor's inputs; the oversized ones halve exactly
ExtractImages == {NoImage, Img(400, 400), Img(1024, 768), Img(2048, 2048), Img(2048, 1024)}

\* Pixel coordinates, and coordinates with a fractional part of 1 / Sub
PixelCoords == {-10, 0, 10, 11, 100, 200, 400, 2048}

FracCoords == {10, 100, 200}

BoxCoords == {p * Sub : p \in PixelCoords} \cup {p * Sub + 1 : p \in FracCoords}

ExtractBoxes == {<<x1, y1, x2, y2>> : x1 \in BoxCoords, y1 \in {0, 100 * Sub, 100 * Sub + 1},
                                     x2 \in BoxCoords, y2 \in BoxCoords}

\* Sizes of the stylizer's inputs
FaceDims == {0, 1, 2, 7, 8, 120, 300, 512, 513, 600, 1024}

\* Inputs of the compositor
InsertIllustrations ==
    {NoImage, Img(400, 400), Img(1024, 1024), Img(2048, 1024), Img(1122, 561)}

InsertFaces == {Img(0, 0), Img(8, 8), Img(120, 120), Img(512, 300)}

InsertCoordVals == {0, 3, 90, 210, 400, 1100}

InsertBoxes == {<<x1, y1, x2, y2>> : x1 \in InsertCoordVals, y1 \in {0, 90, 210},
                                    x2 \in InsertCoordVals, y2 \in InsertCoordVals}

ServiceIdle ==
    /\ models_ready = FALSE
    /\ face_detector = FALSE
    /\ illustration_styler = FALSE
    /\ init_pc = "start"
    /\ req = [r \in Req |-> NewReq]
    /\ run = [r \in Req |-> NoRun]
    /\ uploads = [f \in FileNames |-> NoImage]
    /\ outputs = {}

InitExtract ==
    /\ ServiceIdle
    /\ \E image \in ExtractImages, b \in ExtractBoxes :
         call = [NoCall EXCEPT !.fn = "extract", !.state = "ready",
                               !.image = image, !.box = b]

CallExtract ==
    /\ call.fn = "extract" /\ call.state = "ready"
    /\ LET r == extract_face_region(call.image, call.box)
       IN  call' = [call EXCEPT !.state = "returned",
                     !.ret = [raised |-> r.raised, image |-> r.face_region,
                              box |-> r.coords, path |-> "none"]]
    /\ UNCHANGED svcvars

SpecExtract == InitExtract /\ [][CallExtract]_vars

InitStylize ==
    /\ ServiceIdle
    /\ \E w \in FaceDims, h \in FaceDims :
         call = [NoCall EXCEPT !.fn = "stylize", !.state = "ready", !.face = Img(w, h)]

CallStylize ==
    /\ call.fn = "stylize" /\ call.state = "ready"
    /\ LET r == stylize_face(call.face)
       IN  call' = [call EXCEPT !.state = "returned",
                     !.ret = [raised |-> r.raised, image |-> r.stylized,
                              box |-> NoBox, path |-> "none"]]
    /\ UNCHANGED svcvars

SpecStylize == InitStylize /\ [][CallStylize]_vars

InitInsert ==
    /\ ServiceIdle
    /\ \E ill \in InsertIllustrations, f \in InsertFaces, b \in InsertBoxes, ok \in BOOLEAN :
         call = [NoCall EXCEPT !.fn = "insert", !.state = "ready", !.image = ill,
                               !.face = f, !.box = b, !.cloneOK = ok]

CallInsert ==
    /\ call.fn = "insert" /\ call.state = "ready"
    /\ LET r == insert_face_into_illustration(call.image, call.face, call.box, call.cloneOK)
       IN  call' = [call EXCEPT !.state = "returned",
                     !.ret = [raised |-> r.raised, image |-> r.result,
                              box |-> r.target, path |-> r.path]]
    /\ UNCHANGED svcvars

SpecInsert == InitInsert /\ [][CallInsert]_vars

\* Inputs of the InstantID styler's methods
BlendTemplates == {NoImage, Img(300, 300)}

BlendFaces == {Img(0, 0), Img(120, 120)}

InstantPhotos == {NoImage, Img(800, 600)}

InitInstantID ==
    /\ ServiceIdle
    /\ \/ \E w \in FaceDims, h \in FaceDims :
            call = [NoCall EXCEPT !.fn = "apply_style", !.state = "ready",
                                  !.face = Img(w, h)]
       \/ \E t \in BlendTemplates, f \in BlendFaces, b \in ServiceBoxes, ok \in BOOLEAN :
            call = [NoCall EXCEPT !.fn = "blend", !.state = "ready", !.template = t,
                                  !.face = f, !.box = b, !.blendOK = ok]
       \/ \E image \in InstantPhotos, t \in BlendTemplates, faces \in FaceLists,
              ok \in BOOLEAN :
            call = [NoCall EXCEPT !.fn = "instant_id", !.state = "ready",
                                  !.image = image, !.template = t, !.faces = faces,
                                  !.blendOK = ok]

CallApplyStyle ==
    /\ call.fn = "apply_style" /\ call.state = "ready"
    /\ LET r == apply_illustration_style(call.face)
       IN  call' = [call EXCEPT !.state = "returned",
                     !.ret = [raised |-> r.raised, image |-> r.image,
                              box |-> NoBox, path |-> r.path]]
    /\ UNCHANGED svcvars

CallBlend ==
    /\ call.fn = "blend" /\ call.state = "ready"
    /\ LET r == blend_with_illustration_template(call.template, call.face, call.box,
                                                 call.blendOK)
       IN  call' = [call EXCEPT !.state = "returned",
                     !.ret = [raised |-> r.raised, image |-> r.image,
                              box |-> NoBox, path |-> r.path]]
    /\ UNCHANGED svcvars

CallInstantID ==
    /\ call.fn = "instant_id" /\ call.state = "ready"
    /\ LET r == process_instant_id_style(call.image, call.template, call.faces,
                                         call.blendOK)
       IN  call' = [call EXCEPT !.state = "returned",
                     !.ret = [raised |-> r.raised, image |-> r.image,
                              box |-> NoBox, path |-> r.path]]
    /\ UNCHANGED svcvars

SpecInstantID == InitInstantID /\ [][CallApplyStyle \/ CallBlend \/ CallInstantID]_vars

\* The detection and extraction steps of process on one photo (:219-227).
\* The detector downscales a photo above 1024 itself (face_detector.py:51-58)
\* and reports its boxes in that image, so the boxes lie in 800 x 600, which is
\* inside every image the inputs below give it.
DetectPhotos == {NoImage, Img(800, 600), Img(2048, 1536)}

DetectBoxes == { <<100 * Sub, 100 * Sub, 200 * Sub, 200 * Sub>>,
                 <<400 * Sub, 300 * Sub, 500 * Sub, 400 * Sub>>,
                 <<300 * Sub, 100 * Sub, 500 * Sub, 400 * Sub>>,
                 <<10 * Sub, 10 * Sub, 10 * Sub + 1, 20 * Sub>>,
                 <<50 * Sub, 50 * Sub, 700 * Sub, 550 * Sub>> }

DetectLists == UNION {[1..n -> DetectBoxes] : n \in 0..MaxFaces}

InitDetect ==
    /\ ServiceIdle
    /\ \E image \in DetectPhotos, faces \in DetectLists :
         call = [NoCall EXCEPT !.fn = "detect", !.state = "ready",
                               !.image = image, !.faces = faces]

\* face_data = detector.get_largest_face(face_image_path) (:221)
CallLargest ==
    /\ call.fn = "detect" /\ call.state = "ready"
    /\ LET g == get_largest_face(call.image, call.faces)
       IN  call' = [call EXCEPT !.state = "detected",
                     !.ret = [raised |-> g.raised, image |-> NoImage,
                              box |-> g.bbox, path |-> g.face_data]]
    /\ UNCHANGED svcvars

\* The check of :223-224 and the argument face_data["bbox"] of :227
CallPassBox ==
    /\ call.fn = "detect" /\ call.state = "detected"
    /\ LET d == ProcessDetect(call.image, TRUE, call.faces)
       IN  IF d.raised
           THEN call' = [call EXCEPT !.state = "returned", !.ret.raised = TRUE]
           ELSE call' = [call EXCEPT !.state = "passed", !.box = d.bbox]
    /\ UNCHANGED svcvars

\* face_region, coords = self.extract_face_region(face_image_path, ...) (:227)
CallExtractPassed ==
    /\ call.fn = "detect" /\ call.state = "passed"
    /\ LET e == extract_face_region(call.image, call.box)
       IN  call' = [call EXCEPT !.state = "returned",
                     !.ret = [raised |-> e.raised, image |-> e.face_region,
                              box |-> e.coords, path |-> "face"]]
    /\ UNCHANGED svcvars

SpecDetect == InitDetect /\ [][CallLargest \/ CallPassBox \/ CallExtractPassed]_vars

----------------------------------------------------------------------------
(* main.py: model initialisation and the two request handlers *)

\* What a client uploads: its size in MiB, whether PIL can open it, its image
UploadSizes == {1, MAX_UPLOAD_SIZE, MAX_UPLOAD_SIZE + 1}

PhotoUploads == [mb : UploadSizes, valid : BOOLEAN, image : {Img(1600, 1200)}]

IllustrationUploads == [mb : UploadSizes, valid : BOOLEAN, image : {Img(300, 300), Img(2048, 1536)}]

\* compress_image (main.py:49-66): img.thumbnail(max_size) shrinks the image,
\* keeping its aspect ratio, until both edges fit; the result is saved as JPEG
compress_image(image, max) ==
    LET m == Max(image.w, image.h)
    IN  IF m > max
        THEN Img(Max(1, (image.w * max) \div m), Max(1, (image.h * max) \div m))
        ELSE image

\* ErrorStatus without "except HTTPException: raise": every exception a 500
ErrorStatusGeneric(kind) == IF kind = "not_ready" THEN 503 ELSE 500

\* ErrorStatus with the size limit reported as any other exception
ErrorStatusNoLimit(kind) ==
    CASE kind = "not_ready" -> 503
      [] kind = "timeout"   -> 504
      [] OTHER              -> 500

\* The status of the HTTPException a handler ends with (main.py:164-168, :282-286):
\* an HTTPException raised inside the try block is re-raised as it is, any other
\* exception becomes a 500
ErrorStatus(kind) ==
    CASE kind = "not_ready" -> 503
      [] kind = "too_large" -> 413
      [] kind = "timeout"   -> 504
      [] OTHER              -> 500

\* PersonalizeCleanup that deletes the child photo only
PersonalizeCleanupChildOnly(up, r, q) ==
    Unlink(up, {f \in {<<r, "child">>} : up[f].ok /\ q.child_photo_path})

\* The finally block of personalize_illustration (main.py:287-295)
PersonalizeCleanup(up, r, q) ==
    Unlink(up, {f \in {<<r, "child">>, <<r, "template">>} :
                  /\ up[f].ok
                  /\ (f[2] = "child" => q.child_photo_path)
                  /\ (f[2] = "template" => q.illustration_path)})

\* The finally block of detect_face (main.py:169-176)
DetectCleanup(up, r, q) ==
    Unlink(up, {f \in {<<r, "detect">>} : up[f].ok /\ q.temp_file_path})

\* InitModels_Detector setting models_ready as soon as the detector is loaded,
\* before the styler exists
InitModels_DetectorReadyEarly ==
    /\ init_pc = "start"
    /\ \E loaded \in BOOLEAN :
         IF loaded
         THEN /\ face_detector' = TRUE
              /\ init_pc' = "detector"
              /\ models_ready' = TRUE
         ELSE /\ models_ready' = FALSE
              /\ init_pc' = "failed"
              /\ UNCHANGED face_detector
    /\ UNCHANGED <<call, illustration_styler, req, run, uploads, outputs>>

\* initialize_models (main.py:69-83), run by the startup thread (:90-91)
InitModels_Detector ==
    /\ init_pc = "start"
    /\ \E loaded \in BOOLEAN :
         IF loaded
         THEN /\ face_detector' = TRUE
              /\ init_pc' = "detector"
              /\ UNCHANGED models_ready
         ELSE /\ models_ready' = FALSE
              /\ init_pc' = "failed"
              /\ UNCHANGED face_detector
    /\ UNCHANGED <<call, illustration_styler, req, run, uploads, outputs>>

InitModels_Styler ==
    /\ init_pc = "detector"
    /\ illustration_styler' = TRUE
    /\ init_pc' = "styler"
    /\ UNCHANGED <<call, models_ready, face_detector, req, run, uploads, outputs>>

InitModels_Ready ==
    /\ init_pc = "styler"
    /\ models_ready' = TRUE
    /\ init_pc' = "done"
    /\ UNCHANGED <<call, face_detector, illustration_styler, req, run, uploads, outputs>>

\* The handler ends: its response status, after its finally block
Finish(q, status) == [q EXCEPT !.pc = "done", !.status = status]

\* /personalize up to "await child_photo.read()" (main.py:187-204)
Personalize_Begin(r) ==
    /\ req[r].pc = "new"
    /\ req' = [req EXCEPT ![r] =
                 IF ~models_ready \/ ~face_detector \/ ~illustration_styler
                 THEN Finish([@ EXCEPT !.endpoint = "personalize"], ErrorStatus("not_ready"))
                 ELSE [@ EXCEPT !.endpoint = "personalize", !.pc = "read_child"]]
    /\ UNCHANGED <<call, models_ready, face_detector, illustration_styler, init_pc,
                   run, uploads, outputs>>

\* ... up to "await illustration.read()" (main.py:205-219)
Personalize_SaveChild(r) ==
    /\ req[r].pc = "read_child"
    /\ \E u \in PhotoUploads :
         IF u.mb > MAX_UPLOAD_SIZE
         THEN /\ req' = [req EXCEPT ![r] = Finish([@ EXCEPT !.too_large = "child_photo"],
                                                  ErrorStatus("too_large"))]
              /\ uploads' = PersonalizeCleanup(uploads, r, req[r])
         ELSE IF ~u.valid
         THEN /\ req' = [req EXCEPT ![r] = Finish(@, ErrorStatus("exception"))]
              /\ uploads' = PersonalizeCleanup(uploads, r, req[r])
         ELSE /\ req' = [req EXCEPT ![r] = [@ EXCEPT !.child_photo_path = TRUE,
                                                      !.pc = "read_illust"]]
              /\ uploads' = [uploads EXCEPT ![<<r, "child">>] = compress_image(u.image, PhotoMax)]
    /\ UNCHANGED <<call, models_ready, face_detector, illustration_styler, init_pc,
                   run, outputs>>

\* ... up to "await asyncio.wait_for(...)" (main.py:220-249)
Personalize_SaveIllustration(r) ==
    /\ req[r].pc = "read_illust"
    /\ \E u \in IllustrationUploads :
         IF u.mb > MAX_UPLOAD_SIZE
         THEN /\ req' = [req EXCEPT ![r] = Finish([@ EXCEPT !.too_large = "illustration"],
                                                  ErrorStatus("too_large"))]
              /\ uploads' = PersonalizeCleanup(uploads, r, req[r])
              /\ UNCHANGED run
         ELSE IF ~u.valid
         THEN /\ req' = [req EXCEPT ![r] = Finish(@, ErrorStatus("exception"))]
              /\ uploads' = PersonalizeCleanup(uploads, r, req[r])
              /\ UNCHANGED run
         ELSE /\ req' = [req EXCEPT ![r] = [@ EXCEPT !.illustration_path = TRUE,
                                                      !.pc = "awaiting"]]
              /\ uploads' = [uploads EXCEPT ![<<r, "template">>] = compress_image(u.image, max_dim)]
              /\ run' = [run EXCEPT ![r].stage = "Idle"]
    /\ UNCHANGED <<call, models_ready, face_detector, illustration_styler, init_pc, outputs>>

\* The run's future completes within the timeout (main.py:246-286): the image
\* is written and the inputs deleted, or the run's exception becomes a 500
Personalize_Result(r) ==
    /\ req[r].pc = "awaiting"
    /\ run[r].stage \in {"Done", "Failed"}
    /\ IF run[r].stage = "Done"
       THEN /\ outputs' = outputs \cup {r}
            /\ req' = [req EXCEPT ![r] = Finish([@ EXCEPT !.output_path = TRUE], 200)]
       ELSE /\ req' = [req EXCEPT ![r] = Finish(@, ErrorStatus("exception"))]
            /\ UNCHANGED outputs
    /\ uploads' = PersonalizeCleanup(uploads, r, req[r])
    /\ UNCHANGED <<call, models_ready, face_detector, illustration_styler, init_pc, run>>

\* The 120 s pass first (main.py:250-254).  wait_for cancels the future: a
\* call still queued in the executor is dropped, a call a thread is already
\* running is not stopped.  The timer may also win against a run that has just
\* finished, whose result the event loop has not yet been handed
Personalize_Timeout(r) ==
    /\ req[r].pc = "awaiting"
    /\ req' = [req EXCEPT ![r] = Finish([@ EXCEPT !.timed_out = TRUE], ErrorStatus("timeout"))]
    /\ uploads' = PersonalizeCleanup(uploads, r, req[r])
    /\ run' = [run EXCEPT ![r].stage = IF @ = "Idle" THEN "Cancelled" ELSE @]
    /\ UNCHANGED <<call, models_ready, face_detector, illustration_styler, init_pc,
                   outputs>>

\* /detect-face up to "await file.read()" (main.py:120-132)
DetectFace_Begin(r) ==
    /\ req[r].pc = "new"
    /\ req' = [req EXCEPT ![r] =
                 IF ~models_ready \/ ~face_detector
                 THEN Finish([@ EXCEPT !.endpoint = "detect"], ErrorStatus("not_ready"))
                 ELSE [@ EXCEPT !.endpoint = "detect", !.pc = "read_file"]]
    /\ UNCHANGED <<call, models_ready, face_detector, illustration_styler, init_pc,
                   run, uploads, outputs>>

\* ... the upload is checked, compressed and written (main.py:133-147).  The
\* handler runs on to its end without an await; the state with the file on
\* disk is kept as a step of its own
DetectFace_Save(r) ==
    /\ req[r].pc = "read_file"
    /\ \E u \in PhotoUploads :
         IF u.mb > MAX_UPLOAD_SIZE
         THEN /\ req' = [req EXCEPT ![r] = Finish([@ EXCEPT !.too_large = "file"],
                                                  ErrorStatus("too_large"))]
              /\ uploads' = DetectCleanup(uploads, r, req[r])
         ELSE IF ~u.valid
         THEN /\ req' = [req EXCEPT ![r] = Finish(@, ErrorStatus("exception"))]
              /\ uploads' = DetectCleanup(uploads, r, req[r])
         ELSE /\ req' = [req EXCEPT ![r] = [@ EXCEPT !.temp_file_path = TRUE, !.pc = "saved"]]
              /\ uploads' = [uploads EXCEPT ![<<r, "detect">>] = compress_image(u.image, PhotoMax)]
    /\ UNCHANGED <<call, models_ready, face_detector, illustration_styler, init_pc,
                   run, outputs>>

\* ... the detector runs and the file is deleted (main.py:149-176); inferOK is
\* whether self.app.get returns
DetectFace_Detect(r) ==
    /\ req[r].pc = "saved"
    /\ \E faces \in FaceLists, inferOK \in BOOLEAN :
         LET results == detect_face(imread(<<r, "detect">>), faces)
         IN  req' = [req EXCEPT ![r] =
                       IF results.raised \/ ~inferOK
                       THEN Finish(@, ErrorStatus("exception"))
                       ELSE Finish(@, 200)]
    /\ uploads' = DetectCleanup(uploads, r, req[r])
    /\ UNCHANGED <<call, models_ready, face_detector, illustration_styler, init_pc,
                   run, outputs>>

Init == call = NoCall /\ ServiceIdle

Next ==
    \/ InitModels_Detector
    \/ InitModels_Styler
    \/ InitModels_Ready
    \/ \E r \in Req :
         \/ Personalize_Begin(r)
         \/ Personalize_SaveChild(r)
         \/ Personalize_SaveIllustration(r)
         \/ Personalize_Result(r)
         \/ Personalize_Timeout(r)
         \/ DetectFace_Begin(r)
         \/ DetectFace_Save(r)
         \/ DetectFace_Detect(r)
         \/ Process_Start(r)
         \/ Process_Detect(r)
         \/ Process_Extract(r)
         \/ Process_Stylize(r)
         \/ Process_Composite(r)

Spec == Init /\ [][Next]_vars

----------------------------------------------------------------------------
(* Properties of the pipeline and of the request handlers *)

WorkingStages == {"Detecting", "Extracting", "Stylizing", "Compositing"}

\* The transitions of the orchestrator's state machine; a call the timeout
\* cancels while it is still queued never runs (Idle to Cancelled)
StageEdges ==
    { <<"none", "Idle">>, <<"Idle", "Cancelled">>, <<"Idle", "Detecting">>, <<"Detecting", "Extracting">>,
      <<"Extracting", "Stylizing">>, <<"Stylizing", "Compositing">>,
      <<"Compositing", "Done">> }
    \cup {<<st, "Failed">> : st \in WorkingStages}

\* C1: in every run of process the stages are entered only in the order
\* Detecting, Extracting, Stylizing, Compositing, Done (or Failed, from a
\* stage at work): a stage is entered only when the previous one did not raise,
\* none is entered twice, and Done is entered only from Compositing with a result.
C1_StagesInOrder ==
    [][\A r \in Req :
         run'[r].stage # run[r].stage
         => /\ <<run[r].stage, run'[r].stage>> \in StageEdges
            /\ run'[r].stage # "Failed" => run'[r].raised_in = "none"
            /\ run'[r].stage = "Extracting" => run'[r].face_data = "face"
            /\ run'[r].stage = "Compositing" => run'[r].stylized.ok
            /\ run'[r].stage = "Done" => run'[r].result.ok]_vars

\* C1 witness: a run went through all stages and is Done with its result
C1_Witness == \E r \in Req : run[r].stage = "Done" /\ run[r].result.ok

\* C2: when the detector finds no face, the run is Failed with the cause
\* "no face detected", raised in Detecting; nothing was extracted, stylized or
\* composited; the request, once answered, is answered with an error; and the
\* request has written no output file.
C2_NoFaceFails ==
    \A r \in Req :
       run[r].face_data = "None"
       => /\ run[r].stage = "Failed"
          /\ run[r].cause = "NoFaceDetected"
          /\ run[r].raised_in = "Detecting"
          /\ run[r].face_region = NoImage /\ run[r].coords = NoBox
          /\ run[r].stylized = NoImage /\ run[r].result = NoImage
          /\ r \notin outputs /\ ~req[r].output_path
          /\ req[r].pc = "done" => req[r].status \in {500, 504}

\* C2 witness: a request whose photo showed no face was answered 500
C2_Witness ==
    \E r \in Req : run[r].face_data = "None" /\ req[r].pc = "done" /\ req[r].status = 500

\* C3: when a /personalize or /detect-face request has finished, with whatever
\* status, none of the temporary input files it wrote exists any more.
C3_TempFilesReleased ==
    \A r \in Req :
       req[r].pc = "done" => \A f \in FileNames : f[1] = r => ~Exists(f)

\* C3 witness: a /personalize request that had written both files ended in a
\* timeout, and a /detect-face request that had written its file succeeded
C3_Witness ==
    \E r1, r2 \in Req :
       /\ req[r1].pc = "done" /\ req[r1].status = 504
       /\ req[r1].child_photo_path /\ req[r1].illustration_path
       /\ req[r2].pc = "done" /\ req[r2].status = 200 /\ req[r2].temp_file_path

\* C4: a /personalize request whose run exceeded the timeout is answered 504,
\* and never writes an output file nor returns an image, whatever the
\* background run does afterwards.
C4_TimeoutDiscardsRun ==
    \A r \in Req :
       req[r].timed_out
       => /\ req[r].pc = "done" /\ req[r].status = 504
          /\ r \notin outputs /\ ~req[r].output_path

\* C4 witness: the request timed out and its background run completed
C4_Witness == \E r \in Req : req[r].timed_out /\ run[r].stage = "Done" /\ run[r].result.ok

\* C5: a stage that raises (undecodable photo or illustration, invalid
\* geometry, stylization error) moves the run to Failed, which it never leaves;
\* no later stage has run; a degenerate extracted box never ends in Done; and
\* the request is answered with an error, never with a success.
C5_FailureIsTerminal ==
    /\ [](\A r \in Req :
            /\ run[r].raised_in # "none"
               => /\ run[r].stage = "Failed" /\ run[r].cause # "none"
                  /\ run[r].raised_in = "Detecting" => run[r].face_region = NoImage
                  /\ run[r].raised_in \in {"Detecting", "Extracting"} => run[r].stylized = NoImage
                  /\ run[r].result = NoImage
                  /\ r \notin outputs
                  /\ req[r].pc = "done" => req[r].status \in {500, 504}
            /\ run[r].stage \in {"Done", "Failed"} => run[r].stylized = NoImage)
    /\ [][\A r \in Req :
            /\ run[r].stage = "Failed" => run'[r] = run[r]
            /\ (run[r].stage = "Compositing" /\ run'[r].stage = "Done")
               => /\ run[r].coords[1] < run[r].coords[3]
                  /\ run[r].coords[2] < run[r].coords[4]
                  /\ ~Empty(run[r].face_region)]_vars

\* C5 witness: the stylization raised (the crop of a collapsed box is empty)
\* and the request was answered 500
C5_Witness ==
    \E r \in Req :
       /\ run[r].raised_in = "Stylizing" /\ run[r].cause = "StylizeError"
       /\ req[r].pc = "done" /\ req[r].status = 500

----------------------------------------------------------------------------
(* Properties of the three styler methods *)

ExtractReturned == call.fn = "extract" /\ call.state = "returned"

StylizeReturned == call.fn = "stylize" /\ call.state = "returned"

InsertReturned == call.fn = "insert" /\ call.state = "returned"

\* The box (coordinates n / Sub) lies fully inside the image, x1 < x2, y1 < y2
BoxInside(image, b) ==
    /\ 0 <= b[1] /\ b[1] < b[3] /\ b[3] <= image.w * Sub
    /\ 0 <= b[2] /\ b[2] < b[4] /\ b[4] <= image.h * Sub

LongEdge(image) == Max(image.w, image.h)

\* C6 (as claimed): when seamless cloning fails the compositor falls back to
\* the alpha blend and returns a composite instead of raising; in particular a
\* zero-area target rectangle (x1 = x2 or y1 = y2) falls back to the alpha
\* blend rather than raising.
C6_FallbackInsteadOfRaise ==
    (InsertReturned /\ call.image.ok /\ ~Empty(call.face))
    => LET c == InsertCoords(call.image, call.box)
           zero == c[1] = c[3] \/ c[2] = c[4]
           tried == c[3] - c[1] >= 4 /\ c[4] - c[2] >= 4
       IN  /\ (tried /\ ~call.cloneOK) => (~call.ret.raised /\ call.ret.path = "fallback")
           /\ (zero /\ RectInside(InsertResize(call.image), c))
                 => (~call.ret.raised /\ call.ret.path = "fallback")

\* C7 (as claimed): for any decodable image and any bounding box fully inside
\* it, extract_face_region returns a box with 0 <= x1 < x2 <= width and
\* 0 <= y1 < y2 <= height, and the crop is x2 - x1 wide and y2 - y1 high.
C7_ReturnedBoxValid ==
    (ExtractReturned /\ call.image.ok /\ BoxInside(call.image, call.box))
    => LET c == call.ret.box
       IN  /\ ~call.ret.raised
           /\ 0 <= c[1] /\ c[1] < c[3] /\ c[3] <= call.image.w
           /\ 0 <= c[2] /\ c[2] < c[4] /\ c[4] <= call.image.h
           /\ call.ret.image.w = c[3] - c[1]
           /\ call.ret.image.h = c[4] - c[2]

\* The case C8 is about: no downscale, box inside the image
C8_Case ==
    /\ ExtractReturned /\ call.image.ok
    /\ LongEdge(call.image) <= max_dim
    /\ BoxInside(call.image, call.box)

\* C8 (as claimed): in that case the result is exactly
\* (max(0, x1 - p), max(0, y1 - p), min(w, x2 + p), min(h, y2 + p)) with
\* p = floor(0.1 * (x2 - x1)), for the box coordinates as given.
C8_ExactOnGivenCoords ==
    C8_Case
    => LET b == call.box
           c == call.ret.box
           p == (b[3] - b[1]) \div (PadDiv * Sub)
       IN  /\ ~call.ret.raised
           /\ c[1] * Sub = Max(0, b[1] - p * Sub)
           /\ c[2] * Sub = Max(0, b[2] - p * Sub)
           /\ c[3] * Sub = Min(call.image.w * Sub, b[3] + p * Sub)
           /\ c[4] * Sub = Min(call.image.h * Sub, b[4] + p * Sub)

\* C8 (amended): in that case the result is exactly
\* (max(0, x1 - p), max(0, y1 - p), min(w, x2 + p), min(h, y2 + p)) with
\* p = floor(0.1 * (x2 - x1)), where x1, y1, x2, y2 are the box coordinates
\* truncated to integers; the same p on all four sides; and a 400x400 image
\* with the box (100,100,200,200) gives (90,90,210,210).
C8_ExactOnTruncatedCoords ==
    /\ C8_Case
       => LET x1 == call.box[1] \div Sub
              y1 == call.box[2] \div Sub
              x2 == call.box[3] \div Sub
              y2 == call.box[4] \div Sub
              p  == (x2 - x1) \div 10
          IN  /\ ~call.ret.raised
              /\ call.ret.box = << Max(0, x1 - p), Max(0, y1 - p),
                                   Min(call.image.w, x2 + p), Min(call.image.h, y2 + p) >>
    /\ (ExtractReturned /\ call.image = Img(400, 400)
          /\ call.box = <<100 * Sub, 100 * Sub, 200 * Sub, 200 * Sub>>)
       => call.ret.box = <<90, 90, 210, 210>>

\* C8 witness: the 400x400 scenario has returned its padded box
C8_Witness ==
    /\ C8_Case
    /\ call.image = Img(400, 400)
    /\ call.box = <<100 * Sub, 100 * Sub, 200 * Sub, 200 * Sub>>
    /\ call.ret.box = <<90, 90, 210, 210>>

\* C9 (as claimed): extract_face_region raises when the image cannot be
\* decoded, raises when the box has zero or negative area after padding and
\* clamping, and never returns an empty crop.
C9_ExtractFailsOnCollapse ==
    ExtractReturned
    => /\ ~call.image.ok => call.ret.raised
       /\ ~call.ret.raised
            => /\ call.ret.box[1] < call.ret.box[3]
               /\ call.ret.box[2] < call.ret.box[4]
               /\ ~Empty(call.ret.image)

\* C10 (as claimed): for every input of at least 8x8 pixels, also with a long
\* edge above 512, stylize_face returns an image of the input's width and height.
C10_StylizePreservesSize ==
    (StylizeReturned /\ call.face.w >= 8 /\ call.face.h >= 8)
    => /\ ~call.ret.raised
       /\ call.ret.image.w = call.face.w
       /\ call.ret.image.h = call.face.h

----------------------------------------------------------------------------
(* Properties of the compositor's result, the InstantID styler, concurrent   *)
(* runs, the detector, model readiness and upload limits                    *)

\* The call of the compositor returned a composite
InsertSucceeded == InsertReturned /\ ~call.ret.raised

\* C11 (as claimed): whenever insert_face_into_illustration returns, on the
\* seamless and on the fallback path alike, the result has the size of the
\* illustration when its long edge is at most 1024, and otherwise the size
\* (floor(w * s), floor(h * s)) with s = 1024 / max(w, h); its long edge never
\* exceeds 1024, and the target coordinates are scaled by the same s.
C11_ExactFloor ==
    InsertSucceeded
    => LET ill == call.image
           m   == LongEdge(ill)
           out == call.ret.image
       IN  /\ call.ret.path \in {"seamless", "fallback"}
           /\ LongEdge(out) <= max_dim
           /\ IF m <= max_dim
              THEN out = ill /\ call.ret.box = call.box
              ELSE /\ out = Img((ill.w * max_dim) \div m, (ill.h * max_dim) \div m)
                   /\ call.ret.box = [i \in 1..4 |-> (call.box[i] * max_dim) \div m]

\* v is floor(e / m) or the integer below it
FloorOrBelow(v, e, m) == v = e \div m \/ v = (e \div m) - 1

\* C11 (amended): whenever insert_face_into_illustration returns, on either
\* path, the result is the illustration unchanged when its long edge is at
\* most 1024; otherwise each dimension and each target coordinate v has become
\* floor(v * 1024 / max(w, h)) or, where the double product falls short, the
\* integer below it, and the long edge never exceeds 1024.
C11_FloorOrOneLess ==
    InsertSucceeded
    => LET ill == call.image
           m   == LongEdge(ill)
           out == call.ret.image
       IN  /\ call.ret.path \in {"seamless", "fallback"}
           /\ out.ok
           /\ LongEdge(out) <= max_dim
           /\ IF m <= max_dim
              THEN out = ill /\ call.ret.box = call.box
              ELSE /\ FloorOrBelow(out.w, ill.w * max_dim, m)
                   /\ FloorOrBelow(out.h, ill.h * max_dim, m)
                   /\ \A i \in 1..4 :
                        FloorOrBelow(call.ret.box[i], call.box[i] * max_dim, m)

\* A 2048 x 1024 illustration composited on the fallback path: the result is
\* 1024 x 512 and the target (90, 90, 210, 210) has become (45, 45, 105, 105)
C11_Witness ==
    /\ InsertSucceeded
    /\ call.image = Img(2048, 1024)
    /\ call.box = <<90, 90, 210, 210>>
    /\ call.ret.path = "fallback"
    /\ call.ret.image = Img(1024, 512)
    /\ call.ret.box = <<45, 45, 105, 105>>

\* A call of a method of the InstantID styler returned a value to its caller
InstantReturned ==
    /\ call.fn \in {"apply_style", "blend", "instant_id"}
    /\ call.state = "returned"
    /\ ~call.ret.raised

\* C12 (as claimed): no operation reports a partial result as success: when
\* the stylization or the blend fails inside apply_illustration_style or
\* blend_with_illustration_template, a blend onto an invalid or zero-area
\* target included, the caller receives a failure; what a call returns is the
\* styled face or the blended composite, never the face it was given or the
\* template unmodified.
C12_NoPartialResult ==
    InstantReturned => call.ret.path \in {"stylized", "result"}

\* The child photo as a run can find it: deleted, or as the handler saved it
ChildImages == {NoImage} \cup {compress_image(u.image, PhotoMax) : u \in PhotoUploads}

\* What "Detect face" (:219-224) can come to on each of them
DetectOutcomes ==
    [image \in ChildImages |->
       {ProcessDetect(image, loaded, faces) : loaded \in BOOLEAN, faces \in FaceLists}]

\* What one step of IllustrationStyler.process makes of its locals rn when the
\* run is the only one in the service (illustration_styler.py:219-241): child
\* and template are the two files of its own request
AloneNext(rn, child, template) ==
    CASE rn.stage = "Idle" -> {[rn EXCEPT !.stage = "Detecting"]}
      [] rn.stage = "Detecting" ->
           { Leave([rn EXCEPT !.stage = IF d.raised THEN "Failed" ELSE "Extracting",
                              !.cause = d.cause,
                              !.raised_in = IF d.raised THEN "Detecting" ELSE "none",
                              !.face_data = d.face_data,
                              !.bbox = d.bbox])
             : d \in DetectOutcomes[child] }
      [] rn.stage = "Extracting" ->
           { LET e == extract_face_region(child, rn.bbox)
             IN  Leave([rn EXCEPT !.stage = IF e.raised THEN "Failed" ELSE "Stylizing",
                                  !.cause = IF e.raised THEN "DecodeError" ELSE "none",
                                  !.raised_in = IF e.raised THEN "Extracting" ELSE "none",
                                  !.face_region = e.face_region,
                                  !.coords = e.coords]) }
      [] rn.stage = "Stylizing" ->
           { LET t == stylize_face(rn.face_region)
             IN  Leave([rn EXCEPT !.stage = IF t.raised THEN "Failed" ELSE "Compositing",
                                  !.cause = IF t.raised THEN "StylizeError" ELSE "none",
                                  !.raised_in = IF t.raised THEN "Stylizing" ELSE "none",
                                  !.stylized = t.stylized]) }
      [] rn.stage = "Compositing" ->
           { LET i == insert_face_into_illustration(template, rn.stylized, rn.coords, cloneOK)
             IN  Leave([rn EXCEPT !.stage = IF i.raised THEN "Failed" ELSE "Done",
                                  !.cause = IF ~i.raised THEN "none"
                                            ELSE IF ~template.ok THEN "DecodeError"
                                            ELSE "InsertError",
                                  !.raised_in = IF i.raised THEN "Compositing" ELSE "none",
                                  !.result = i.result])
             : cloneOK \in BOOLEAN }
      [] OTHER -> {}

C14_LargestFacePassed ==
    /\ (call.fn = "detect" /\ call.state = "detected" /\ ~call.ret.raised)
       => /\ call.ret.path = "None" <=> call.faces = << >>
          /\ call.faces # << >>
             => /\ call.ret.path = "face"
                /\ \E i \in 1..Len(call.faces) : call.faces[i] = call.ret.box
                /\ \A j \in 1..Len(call.faces) :
                     (call.faces[j][3] - call.faces[j][1])
                       * (call.faces[j][4] - call.faces[j][2])
                     <= (call.ret.box[3] - call.ret.box[1])
                          * (call.ret.box[4] - call.ret.box[2])
    /\ (call.fn = "detect" /\ call.state = "passed")
       => call.faces # << >> /\ call.ret.path = "face" /\ call.box = call.ret.box

\* Two faces, the larger one reported second: its box goes to the extractor
C14_Witness ==
    /\ call.fn = "detect" /\ call.state = "passed"
    /\ call.faces = << <<100 * Sub, 100 * Sub, 200 * Sub, 200 * Sub>>,
                       <<300 * Sub, 100 * Sub, 500 * Sub, 400 * Sub>> >>
    /\ call.box = <<300 * Sub, 100 * Sub, 500 * Sub, 400 * Sub>>

\* C17 (as claimed): the detector and the extractor agree on the coordinate
\* system.  For a photo whose long edge exceeds 1024 the detector reports the
\* box in the coordinates of the image it downscaled, and the box
\* extract_face_region crops in its own downscaled image is that same box,
\* truncated to whole pixels, plus the padding: scaled once, not twice.
C17_ScaledOnce ==
    (/\ call.fn = "detect" /\ call.state = "returned" /\ ~call.ret.raised
     /\ LongEdge(call.image) > max_dim)
    => LET b == [i \in 1..4 |-> call.box[i] \div Sub]
           p == (b[3] - b[1]) \div PadDiv
           img == ExtractResize(call.image)
       IN  call.ret.box = << Max(0, b[1] - p), Max(0, b[2] - p),
                             Min(img.w, b[3] + p), Min(img.h, b[4] + p) >>

\* C15: models_ready = True implies that face_detector and illustration_styler
\* are both initialised; models_ready never returns from True to False; and a
\* /detect-face or /personalize request handled while models_ready is False is
\* answered 503 without a file written or a pipeline run started.
C15_ReadyGate ==
    /\ [](/\ models_ready => (face_detector /\ illustration_styler)
          /\ \A r \in Req :
               req[r].status = 503
               => /\ req[r].pc = "done"
                  /\ run[r].stage = "none"
                  /\ \A f \in FileNames : f[1] = r => ~Exists(f)
                  /\ ~req[r].child_photo_path /\ ~req[r].illustration_path
                  /\ ~req[r].temp_file_path /\ ~req[r].output_path)
    /\ [][ /\ models_ready => models_ready'
           /\ \A r \in Req :
                (req[r].pc = "new" /\ req'[r] # req[r] /\ ~models_ready)
                => /\ req'[r].pc = "done" /\ req'[r].status = 503
                   /\ UNCHANGED <<uploads, outputs, run>> ]_vars

\* A request answered 503 while the models were loading, and a later request
\* accepted after models_ready was set
C15_Witness ==
    \E r, q \in Req :
        /\ req[r].status = 503 /\ req[r].endpoint = "personalize"
        /\ models_ready /\ face_detector /\ illustration_styler
        /\ req[q].pc = "awaiting"

\* C16 (as claimed): a background pipeline run never reads a temporary input
\* file after the request handler has deleted it, in every interleaving, the
\* one where the 120 s timeout fires during the run included.  The run reads
\* the child photo when it detects (unless FaceDetector() itself failed) and
\* when it extracts, and the illustration when it composites.
C16_NoReadAfterDelete ==
    [][ \A r \in Req :
          run'[r] # run[r]
          => /\ (run[r].stage = "Detecting" /\ run'[r].cause # "DetectorInit")
                => Exists(<<r, "child">>)
             /\ run[r].stage = "Extracting" => Exists(<<r, "child">>)
             /\ run[r].stage = "Compositing" => Exists(<<r, "template">>) ]_vars

\* C18 (as claimed): the rectangle the compositor writes into always lies
\* inside the illustration.  For every illustration and every box the
\* extractor produced from the photo, the target rectangle that
\* insert_face_into_illustration uses satisfies 0 <= x1 < x2 <= width and
\* 0 <= y1 < y2 <= height of the illustration, and the region of the
\* illustration it reads has the width and height of the resized face.
C18_TargetInsideIllustration ==
    \A r \in Req :
        (run[r].stage = "Compositing" /\ Exists(<<r, "template">>))
        => LET illustration == imread(<<r, "template">>)
               ill == InsertResize(illustration)
               c   == InsertCoords(illustration, run[r].coords)
           IN  /\ 0 <= c[1] /\ c[1] < c[3] /\ c[3] <= ill.w
               /\ 0 <= c[2] /\ c[2] < c[4] /\ c[4] <= ill.h
               /\ SliceLen(c[1], c[3], ill.w) = c[3] - c[1]
               /\ SliceLen(c[2], c[4], ill.h) = c[4] - c[2]

\* C19: an upload larger than MAX_UPLOAD_SIZE is rejected with 413 before the
\* pipeline is started, for /detect-face and, for /personalize, whether the
\* oversized file is the child photo or the illustration: the request is over
\* with status 413, no run was started for it, no output file was written,
\* and no temporary file of the request is left, the child photo written
\* before an oversized illustration was read included.
C19_OversizeRejected ==
    \A r \in Req :
        req[r].too_large # "none"
        => /\ req[r].pc = "done" /\ req[r].status = 413
           /\ run[r].stage = "none"
           /\ r \notin outputs /\ ~req[r].output_path
           /\ \A f \in FileNames : f[1] = r => ~Exists(f)

\* The illustration was the oversized upload: the child photo had been
\* written, and is gone
C19_Witness ==
    \E r \in Req :
        /\ req[r].too_large = "illustration"
        /\ req[r].child_photo_path /\ ~Exists(<<r, "child">>)
        /\ req[r].status = 413

====
